---- MODULE Spec2Model ----
(***************************************************************************)
(* Model of projects/unit3/build-mcp-server/starter/server.py: the three   *)
(* MCP tools analyze_file_changes, get_pr_templates and suggest_template.  *)
(*                                                                         *)
(* Text (a Python str whose characters matter) is a sequence of            *)
(* one-character strings, so that splitlines, strip, join and lower are    *)
(* computed character by character.  Fixed messages and names that are     *)
(* only compared for equality are TLA+ strings.  An Optional[str] is <<>>  *)
(* for None and <<s>> for the string s.                                    *)
(***************************************************************************)
EXTENDS Integers, Sequences, FiniteSets, TLC

VARIABLES
    pc,              \* position of the analyze_file_changes invocation
    base_branch,     \* argument
    include_diff,    \* argument
    max_diff_lines,  \* argument
    given_dir,       \* argument working_dir as the caller passed it
    working_dir,     \* local working_dir (reassigned by lines 65-73)
    roots_reply,     \* what the host answered to list_roots in this invocation
    issued,          \* the subprocess.run calls made so far in this invocation
    diff_output,     \* local diff_output (line 82)
    stats_stdout,    \* stats_result.stdout (line 91)
    changed_files,   \* local changed_files (line 107)
    result,          \* the object the invocation serialises and returns
    escaped,         \* the exception that left the invocation, if any
    store,           \* the template directory: filename -> content or Missing
    edits,           \* number of external edits of the store so far
    tool,            \* the template tool that ran last
    tool_args,       \* its arguments
    tool_return      \* what it returned or raised

inspect_vars == <<pc, base_branch, include_diff, max_diff_lines, given_dir,
                  working_dir, roots_reply, issued, diff_output, stats_stdout,
                  changed_files, result, escaped>>
template_vars == <<store, edits, tool, tool_args, tool_return>>
vars == <<inspect_vars, template_vars>>

-----------------------------------------------------------------------------
(* Bounds *)

MaxLen == 3        \* longest stdout of `git diff` considered, in characters
MaxM == 2          \* largest max_diff_lines considered
MaxEdits == 2      \* external edits of the template store considered

-----------------------------------------------------------------------------
(* Text helpers: Python str methods, character by character *)

\* Characters of VCS output.  subprocess.run(text=True) reads stdout with
\* universal newlines, so "\r\n" and "\r" arrive as "\n".
Alphabet == {"a", " ", "\n"}

TextsUpTo(n) == UNION {[1..k -> Alphabet] : k \in 0..n}

IsLineBreak(c) == c = "\n"

IsSpace(c) == c \in {" ", "\n"}

\* str.splitlines(): lines without their terminators; a terminator at the
\* very end does not open a further, empty line.
RECURSIVE SplitFrom(_, _, _)
SplitFrom(s, i, cur) ==
    IF i > Len(s) THEN (IF cur = <<>> /\ (i = 1 \/ IsLineBreak(s[i - 1]))
                        THEN <<>> ELSE <<cur>>)
    ELSE IF IsLineBreak(s[i]) THEN <<cur>> \o SplitFrom(s, i + 1, <<>>)
    ELSE SplitFrom(s, i + 1, Append(cur, s[i]))

splitlines(s) == SplitFrom(s, 1, <<>>)

\* str.strip(): drop leading and trailing whitespace.
RECURSIVE lstrip(_)
lstrip(s) == IF s # <<>> /\ IsSpace(Head(s)) THEN lstrip(Tail(s)) ELSE s

RECURSIVE rstrip(_)
rstrip(s) ==
    IF s # <<>> /\ IsSpace(s[Len(s)]) THEN rstrip(SubSeq(s, 1, Len(s) - 1)) ELSE s

strip(s) == rstrip(lstrip(s))

\* "\n".join(lines)
RECURSIVE join(_)
join(lines) ==
    IF lines = <<>> THEN <<>>
    ELSE IF Len(lines) = 1 THEN lines[1]
    ELSE lines[1] \o <<"\n">> \o join(Tail(lines))

\* lines[:m], Python slice semantics: a negative m counts from the end.
SliceTo(lines, m) ==
    IF m >= 0 THEN SubSeq(lines, 1, IF m < Len(lines) THEN m ELSE Len(lines))
    ELSE SubSeq(lines, 1, IF Len(lines) + m > 0 THEN Len(lines) + m ELSE 0)

-----------------------------------------------------------------------------
(* analyze_file_changes: values *)

None == <<>>
Some(x) == <<x>>

NoResult == [pending |-> TRUE]

\* os.getcwd(): the directory the server process runs in.
getcwd == "/srv"

Branches == {"main", "dev"}
CallerDirs == {"/repo"}

\* "\n... (truncated)" (line 89)
TruncationMarker ==
    <<"\n", ".", ".", ".", " ", "(", "t", "r", "u", "n", "c", "a", "t", "e", "d", ")">>

\* "Use include_diff=True to see the diff." (line 127)
DiffSuppressed ==
    <<"U", "s", "e", " ", "i", "n", "c", "l", "u", "d", "e", "_", "d", "i", "f", "f",
      "=", "T", "r", "u", "e", " ", "t", "o", " ", "s", "e", "e", " ", "t", "h", "e",
      " ", "d", "i", "f", "f", ".">>

\* What the host can answer to mcp.get_context() / session.list_roots()
\* (lines 67-69): no request context, a failed request, or a list of roots.
\* A root is a file URL, whose path is never empty.
RootsReplies ==
    {[kind |-> "no_context"], [kind |-> "request_failed"]}
    \cup {[kind |-> "roots", roots |-> r] : r \in {<<>>, <<"/r2", "/r1">>}}

NotConsulted == [kind |-> "not_consulted"]

\* What the git child process can do: fail to start (no executable, cwd not a
\* directory), or run to an exit status with some standard output and error.
GitMissing ==
    [kind |-> "spawn_error", class |-> "FileNotFoundError",
     msg |-> "No such file or directory"]
DirGone ==
    [kind |-> "spawn_error", class |-> "NotADirectoryError", msg |-> "Not a directory"]

Exit(rc, out) ==
    [kind |-> "exit", returncode |-> rc, stdout |-> out, stderr |-> "fatal"]

\* A failing git may have written nothing or the beginning of its output.
\* Once the first command has started, git exists; the directory may vanish.
DiffProcs ==
    {GitMissing, DirGone} \cup {Exit(0, o) : o \in TextsUpTo(MaxLen)}
                \cup {Exit(128, o) : o \in TextsUpTo(1)}
StatProcs == {DirGone} \cup {Exit(0, <<" ", "a", "\n">>), Exit(128, <<>>)}
NameProcs == {DirGone} \cup {Exit(0, <<"a", "\n", "a", " ", "\n">>), Exit(128, <<>>)}
LogProcs == {DirGone} \cup {Exit(0, <<"a", " ", "a", "\n">>), Exit(1, <<>>)}

-----------------------------------------------------------------------------
(* analyze_file_changes: helpers *)

\* subprocess.run(argv, cwd=..., capture_output=True, text=True), lines 75-80,
\* 91-96, 99-104, 110-115: check is not passed, so an exit status is returned
\* in the CompletedProcess whatever it is; only a failure to start raises.
subprocess_run(proc) ==
    IF proc.kind = "spawn_error"
    THEN [raised |-> TRUE, exc |-> [class |-> proc.class, msg |-> proc.msg]]
    ELSE [raised |-> FALSE, returncode |-> proc.returncode, stdout |-> proc.stdout]

\* Exception classes that `except Exception` (line 119) catches.
ExceptionSubclasses ==
    {"CalledProcessError", "FileNotFoundError", "NotADirectoryError"}

\* Variant: only the git-specific clause, no `except Exception`.
ExceptClausesGitOnly(exc) ==
    IF exc.class = "CalledProcessError"
    THEN [caught |-> TRUE, value |-> [error |-> "Git error: " \o exc.msg]]
    ELSE [caught |-> FALSE]

\* The except clauses of lines 117-120.
ExceptClauses(exc) ==
    IF exc.class = "CalledProcessError"
    THEN [caught |-> TRUE, value |-> [error |-> "Git error: " \o exc.msg]]
    ELSE IF exc.class \in ExceptionSubclasses
    THEN [caught |-> TRUE, value |-> [error |-> exc.msg]]
    ELSE [caught |-> FALSE]

\* Variant: roots[-1] instead of roots[0].
LastRoot(reply) ==
    IF reply.kind = "roots" /\ reply.roots # <<>>
    THEN [raised |-> FALSE, value |-> Some(reply.roots[Len(reply.roots)])]
    ELSE [raised |-> TRUE]

\* Lines 67-69: the first declared root's path; raises when there is no
\* request context, when the request fails, and when the list is empty.
FirstRoot(reply) ==
    IF reply.kind = "roots" /\ reply.roots # <<>>
    THEN [raised |-> FALSE, value |-> Some(reply.roots[1])]
    ELSE [raised |-> TRUE]

\* Lines 65-73 with working_dir None: `except Exception: pass` leaves
\* working_dir None, and `finally` takes `working_dir or os.getcwd()`.
ResolveWorkingDir(reply) ==
    LET wd == IF FirstRoot(reply).raised THEN None ELSE FirstRoot(reply).value
    IN  IF wd # None THEN wd[1] ELSE getcwd

\* Variant: the emptiness test inverted.
NoDiffInverted(out) == out # <<>>

\* `if not diff_output` (line 83)
NoDiff(out) == out = <<>>

\* Variant: the name-only range written with two dots like the others.
NameOnlyArgvTwoDots(b) == <<"git", "diff", "--name-only", b \o "..HEAD">>

\* Line 76, 92, 111: f"{base_branch}..HEAD"; line 100: f"{base_branch}...HEAD"
DiffArgv(b) == <<"git", "diff", b \o "..HEAD">>
StatArgv(b) == <<"git", "diff", "--stat", b \o "..HEAD">>
NameOnlyArgv(b) == <<"git", "diff", "--name-only", b \o "...HEAD">>
LogArgv(b) == <<"git", "log", "--oneline", b \o "..HEAD">>

\* Variant: `>=` in place of `>` in both comparisons.
TruncatedFormOffByOne(out, m) ==
    IF Len(splitlines(out)) >= m
    THEN join(SliceTo(splitlines(out), m)) \o TruncationMarker
    ELSE strip(out)

\* Lines 87-89 and 128: the value of the report's "truncated" key.
TruncatedForm(out, m) ==
    IF Len(splitlines(out)) > m
    THEN join(SliceTo(splitlines(out), m)) \o TruncationMarker
    ELSE strip(out)

\* Variant: counting the lines kept by the truncation.
TotalDiffLinesCapped(out, inc, m) ==
    IF inc THEN Len(SliceTo(splitlines(out), m)) ELSE 0

\* Line 129
TotalDiffLines(out, inc, m) == IF inc THEN Len(splitlines(out)) ELSE 0

\* Line 127
DiffField(out, inc) == IF inc THEN strip(out) ELSE DiffSuppressed

\* Lines 122-130
Report(b, inc, m, out, stats, files, commits) ==
    [base_branch |-> b,
     files_changed |-> files,
     statistics |-> strip(stats),
     commits |-> strip(commits),
     diff |-> DiffField(out, inc),
     truncated |-> TruncatedForm(out, m),
     total_diff_lines |-> TotalDiffLines(out, inc, m)]

-----------------------------------------------------------------------------
(* analyze_file_changes: one action per suspension point or child process *)

Run(argv, proc) == [argv |-> argv, cwd |-> working_dir, proc |-> proc]

\* Leaving the try block by an exception (lines 117-120).
Raise(exc) ==
    /\ pc' = "done"
    /\ IF ExceptClauses(exc).caught
       THEN result' = ExceptClauses(exc).value /\ escaped' = None
       ELSE result' = NoResult /\ escaped' = Some(exc.class)

\* The host invokes the tool (lines 51-65).
Call(b, inc, m, wd) ==
    /\ pc \in {"idle", "done"}
    /\ base_branch' = b
    /\ include_diff' = inc
    /\ max_diff_lines' = m
    /\ given_dir' = wd
    /\ working_dir' = IF wd = None THEN getcwd ELSE wd[1]
    /\ pc' = IF wd = None THEN "list_roots" ELSE "diff"
    /\ roots_reply' = NotConsulted
    /\ issued' = <<>>
    /\ diff_output' = <<>>
    /\ stats_stdout' = <<>>
    /\ changed_files' = <<>>
    /\ result' = NoResult
    /\ escaped' = None
    /\ UNCHANGED template_vars

\* The answer to `await context.session.list_roots()` arrives (lines 66-73).
ListRoots(reply) ==
    /\ pc = "list_roots"
    /\ roots_reply' = reply
    /\ working_dir' = ResolveWorkingDir(reply)
    /\ pc' = "diff"
    /\ UNCHANGED <<base_branch, include_diff, max_diff_lines, given_dir, issued,
                   diff_output, stats_stdout, changed_files, result, escaped,
                   template_vars>>

\* git diff <base>..HEAD, the emptiness test and the split (lines 75-89).
RunDiff(proc) ==
    /\ pc = "diff"
    /\ issued' = Append(issued, Run(DiffArgv(base_branch), proc))
    /\ LET r == subprocess_run(proc) IN
       IF r.raised
       THEN Raise(r.exc) /\ UNCHANGED diff_output
       ELSE IF NoDiff(r.stdout)
       THEN /\ result' = [message |-> "No changes detected."]
            /\ pc' = "done"
            /\ UNCHANGED <<diff_output, escaped>>
       ELSE /\ diff_output' = r.stdout
            /\ pc' = "stat"
            /\ UNCHANGED <<result, escaped>>
    /\ UNCHANGED <<base_branch, include_diff, max_diff_lines, given_dir,
                   working_dir, roots_reply, stats_stdout, changed_files,
                   template_vars>>

\* git diff --stat <base>..HEAD (lines 91-96).
RunStat(proc) ==
    /\ pc = "stat"
    /\ issued' = Append(issued, Run(StatArgv(base_branch), proc))
    /\ LET r == subprocess_run(proc) IN
       IF r.raised
       THEN Raise(r.exc) /\ UNCHANGED stats_stdout
       ELSE /\ stats_stdout' = r.stdout
            /\ pc' = "name_only"
            /\ UNCHANGED <<result, escaped>>
    /\ UNCHANGED <<base_branch, include_diff, max_diff_lines, given_dir,
                   working_dir, roots_reply, diff_output, changed_files,
                   template_vars>>

\* git diff --name-only <base>...HEAD and the file list (lines 99-107).
RunNameOnly(proc) ==
    /\ pc = "name_only"
    /\ issued' = Append(issued, Run(NameOnlyArgv(base_branch), proc))
    /\ LET r == subprocess_run(proc) IN
       IF r.raised
       THEN Raise(r.exc) /\ UNCHANGED changed_files
       ELSE /\ changed_files' = splitlines(strip(r.stdout))
            /\ pc' = "log"
            /\ UNCHANGED <<result, escaped>>
    /\ UNCHANGED <<base_branch, include_diff, max_diff_lines, given_dir,
                   working_dir, roots_reply, diff_output, stats_stdout,
                   template_vars>>

\* git log --oneline <base>..HEAD, then the report (lines 110-132).
RunLog(proc) ==
    /\ pc = "log"
    /\ issued' = Append(issued, Run(LogArgv(base_branch), proc))
    /\ LET r == subprocess_run(proc) IN
       IF r.raised
       THEN Raise(r.exc)
       ELSE /\ result' = Report(base_branch, include_diff, max_diff_lines,
                                diff_output, stats_stdout, changed_files, r.stdout)
            /\ pc' = "done"
            /\ UNCHANGED escaped
    /\ UNCHANGED <<base_branch, include_diff, max_diff_lines, given_dir,
                   working_dir, roots_reply, diff_output, stats_stdout,
                   changed_files, template_vars>>

-----------------------------------------------------------------------------
(* Templates: tables *)

\* DEFAULT_TEMPLATES (lines 22-30), in the dict's insertion order.
DEFAULT_TEMPLATES ==
    <<[filename |-> "bug.md", type |-> "Bug Fix"],
      [filename |-> "feature.md", type |-> "Feature"],
      [filename |-> "docs.md", type |-> "Documentation"],
      [filename |-> "refactor.md", type |-> "Refactor"],
      [filename |-> "test.md", type |-> "Test"],
      [filename |-> "performance.md", type |-> "Performance"],
      [filename |-> "security.md", type |-> "Security"]>>

Filenames == {DEFAULT_TEMPLATES[i].filename : i \in DOMAIN DEFAULT_TEMPLATES}

\* TYPE_MAPPING (lines 33-47)
TYPE_MAPPING ==
    {[key |-> <<"b", "u", "g">>, file |-> "bug.md"],
     [key |-> <<"f", "i", "x">>, file |-> "bug.md"],
     [key |-> <<"f", "e", "a", "t", "u", "r", "e">>, file |-> "feature.md"],
     [key |-> <<"e", "n", "h", "a", "n", "c", "e", "m", "e", "n", "t">>, file |-> "feature.md"],
     [key |-> <<"d", "o", "c", "s">>, file |-> "docs.md"],
     [key |-> <<"d", "o", "c", "u", "m", "e", "n", "t", "a", "t", "i", "o", "n">>, file |-> "docs.md"],
     [key |-> <<"r", "e", "f", "a", "c", "t", "o", "r">>, file |-> "refactor.md"],
     [key |-> <<"c", "l", "e", "a", "n", "u", "p">>, file |-> "refactor.md"],
     [key |-> <<"t", "e", "s", "t">>, file |-> "test.md"],
     [key |-> <<"t", "e", "s", "t", "i", "n", "g">>, file |-> "test.md"],
     [key |-> <<"p", "e", "r", "f", "o", "r", "m", "a", "n", "c", "e">>, file |-> "performance.md"],
     [key |-> <<"o", "p", "t", "i", "m", "i", "z", "a", "t", "i", "o", "n">>, file |-> "performance.md"],
     [key |-> <<"s", "e", "c", "u", "r", "i", "t", "y">>, file |-> "security.md"]}

\* str.lower() on the ASCII letters
UpperCase ==
    <<"A", "B", "C", "D", "E", "F", "G", "H", "I", "J", "K", "L", "M",
      "N", "O", "P", "Q", "R", "S", "T", "U", "V", "W", "X", "Y", "Z">>
LowerCase ==
    <<"a", "b", "c", "d", "e", "f", "g", "h", "i", "j", "k", "l", "m",
      "n", "o", "p", "q", "r", "s", "t", "u", "v", "w", "x", "y", "z">>

LowerChar(c) ==
    IF \E i \in DOMAIN UpperCase : UpperCase[i] = c
    THEN LowerCase[CHOOSE i \in DOMAIN UpperCase : UpperCase[i] = c]
    ELSE c

lower(s) == [i \in DOMAIN s |-> LowerChar(s[i])]

\* dict.get(key, default)
MappingGet(key, default) ==
    IF \E e \in TYPE_MAPPING : e.key = key
    THEN (CHOOSE e \in TYPE_MAPPING : e.key = key).file
    ELSE default

\* A file of the template directory: absent/unreadable, or its text.
Missing == [readable |-> FALSE]
File(text) == [readable |-> TRUE, content |-> text]

InitContent == <<"#", "\n">>
Contents == {<<>>, <<"\"", "\\", "n">>}
InitStore == [f \in Filenames |-> File(InitContent)]

ChangeTypes ==
    {<<"f", "i", "x">>,
     <<"b", "u", "g">>,
     <<"F", "I", "X">>,
     <<"B", "u", "g">>,
     <<"f", "e", "a", "t", "u", "r", "e">>,
     <<"E", "n", "h", "a", "n", "c", "e", "m", "e", "n", "t">>,
     <<"d", "o", "c", "s">>,
     <<"c", "l", "e", "a", "n", "u", "p">>,
     <<"T", "E", "S", "T", "I", "N", "G">>,
     <<"o", "p", "t", "i", "m", "i", "z", "a", "t", "i", "o", "n">>,
     <<"S", "e", "c", "u", "r", "i", "t", "y">>,
     <<"u", "n", "k", "n", "o", "w", "n", "-", "x", "y", "z">>,
     <<"b", "u", "g", "s">>,
     <<>>}
Summaries == {<<"s">>}

-----------------------------------------------------------------------------
(* Templates: JSON strings *)

\* json.dumps of a str: the body of the string literal.
RECURSIVE json_escape(_)
json_escape(s) ==
    IF s = <<>> THEN <<>>
    ELSE (CASE Head(s) = "\"" -> <<"\\", "\"">>
            [] Head(s) = "\\" -> <<"\\", "\\">>
            [] Head(s) = "\n" -> <<"\\", "n">>
            [] OTHER -> <<Head(s)>>) \o json_escape(Tail(s))

\* json.loads of a string literal's body.
RECURSIVE json_unescape(_)
json_unescape(s) ==
    IF s = <<>> THEN <<>>
    ELSE IF Head(s) = "\\" /\ Len(s) >= 2
    THEN <<IF s[2] = "n" THEN "\n" ELSE s[2]>> \o json_unescape(Tail(Tail(s)))
    ELSE <<Head(s)>> \o json_unescape(Tail(s))

\* json.dumps / json.loads of a template record (lines 139-143, 147, 161).
DumpRecord(t) ==
    [filename |-> t.filename, type |-> t.type, content |-> json_escape(t.content)]
LoadRecord(j) ==
    [filename |-> j.filename, type |-> j.type, content |-> json_unescape(j.content)]

json_dumps_list(ts) == [i \in DOMAIN ts |-> DumpRecord(ts[i])]
json_loads_list(js) == [i \in DOMAIN js |-> LoadRecord(js[i])]

-----------------------------------------------------------------------------
(* Templates: the tools *)

\* Variant: contents read once at start-up and kept.
read_text_cached(st, filename) ==
    IF st[filename].readable
    THEN [raised |-> FALSE, value |-> InitStore[filename].content]
    ELSE [raised |-> TRUE, exc |-> "FileNotFoundError"]

\* Variant: an unreadable file read as empty.
read_text_or_empty(st, filename) ==
    [raised |-> FALSE,
     value |-> IF st[filename].readable THEN st[filename].content ELSE <<>>]

\* (TEMPLATES_DIR / filename).read_text() (line 142)
read_text(st, filename) ==
    IF st[filename].readable
    THEN [raised |-> FALSE, value |-> st[filename].content]
    ELSE [raised |-> TRUE, exc |-> "FileNotFoundError"]

\* get_pr_templates (lines 136-147): the comprehension reads the files in
\* table order and the first failing read ends it.
get_pr_templates(st) ==
    LET reads == [i \in DOMAIN DEFAULT_TEMPLATES |->
                     read_text(st, DEFAULT_TEMPLATES[i].filename)]
        failed == {i \in DOMAIN reads : reads[i].raised}
    IN  IF failed # {}
        THEN [raised |-> TRUE,
              exc |-> reads[CHOOSE i \in failed : \A j \in failed : i <= j].exc]
        ELSE [raised |-> FALSE,
              value |-> json_dumps_list(
                  [i \in DOMAIN DEFAULT_TEMPLATES |->
                      [filename |-> DEFAULT_TEMPLATES[i].filename,
                       type |-> DEFAULT_TEMPLATES[i].type,
                       content |-> reads[i].value]])]

\* next((t for t in templates if t["filename"] == template_file), templates[0])
\* (lines 165-168)
SelectTemplate(templates, template_file) ==
    LET hits == {i \in DOMAIN templates : templates[i].filename = template_file}
    IN  IF hits # {}
        THEN [fallback |-> FALSE,
              t |-> templates[CHOOSE i \in hits : \A j \in hits : i <= j]]
        ELSE [fallback |-> TRUE, t |-> templates[1]]

\* Variant: the lookup without .lower().
TemplateFileCaseSensitive(change_type) == MappingGet(change_type, "feature.md")

\* Line 164
TemplateFile(change_type) == MappingGet(lower(change_type), "feature.md")

\* f"Based on your analysis: '{changes_summary}', this appears to be a
\* {change_type} change." (line 172)
Reasoning(changes_summary, change_type) ==
    <<"Based on your analysis: '">> \o changes_summary
    \o <<"', this appears to be a ">> \o change_type \o <<" change.">>

\* suggest_template (lines 160-177)
suggest_template(st, changes_summary, change_type) ==
    LET response == get_pr_templates(st) IN
    IF response.raised THEN [raised |-> TRUE, exc |-> response.exc, fallback |-> FALSE]
    ELSE LET templates == json_loads_list(response.value)
             sel == SelectTemplate(templates, TemplateFile(change_type))
         IN  [raised |-> FALSE,
              fallback |-> sel.fallback,
              value |->
                [recommended_template |-> DumpRecord(sel.t),
                 reasoning |-> json_escape(Reasoning(changes_summary, change_type)),
                 template_content |-> json_escape(sel.t.content),
                 usage_hint |-> "Claude can help you fill out this template based on the specific changes in your PR."]]

\* Somebody outside the server rewrites or removes a template file.
EditStore(f, v) ==
    /\ edits < MaxEdits
    /\ store[f] # v
    /\ store' = [store EXCEPT ![f] = v]
    /\ edits' = edits + 1
    /\ UNCHANGED <<tool, tool_args, tool_return, inspect_vars>>

GetPrTemplates ==
    /\ tool' = "get_pr_templates"
    /\ tool_args' = <<>>
    /\ tool_return' = get_pr_templates(store)
    /\ UNCHANGED <<store, edits, inspect_vars>>

SuggestTemplate(changes_summary, change_type) ==
    /\ tool' = "suggest_template"
    /\ tool_args' = <<changes_summary, change_type>>
    /\ tool_return' = suggest_template(store, changes_summary, change_type)
    /\ UNCHANGED <<store, edits, inspect_vars>>

-----------------------------------------------------------------------------
(* Specifications *)

Init ==
    /\ pc = "idle"
    /\ base_branch = "main"
    /\ include_diff = TRUE
    /\ max_diff_lines = 0
    /\ given_dir = None
    /\ working_dir = getcwd
    /\ roots_reply = NotConsulted
    /\ issued = <<>>
    /\ diff_output = <<>>
    /\ stats_stdout = <<>>
    /\ changed_files = <<>>
    /\ result = NoResult
    /\ escaped = None
    /\ store = InitStore
    /\ edits = 0
    /\ tool = "none"
    /\ tool_args = <<>>
    /\ tool_return = [raised |-> FALSE, value |-> <<>>]

Next ==
    \/ \E b \in Branches, inc \in BOOLEAN, m \in -1..MaxM,
          wd \in {None} \cup {Some(d) : d \in CallerDirs} : Call(b, inc, m, wd)
    \/ \E reply \in RootsReplies : ListRoots(reply)
    \/ \E proc \in DiffProcs : RunDiff(proc)
    \/ \E proc \in StatProcs : RunStat(proc)
    \/ \E proc \in NameProcs : RunNameOnly(proc)
    \/ \E proc \in LogProcs : RunLog(proc)

Spec == Init /\ [][Next]_vars

NextTemplates ==
    \/ \E f \in Filenames, v \in {Missing} \cup {File(c) : c \in Contents \cup {InitContent}} :
          EditStore(f, v)
    \/ GetPrTemplates
    \/ \E s \in Summaries, ct \in ChangeTypes : SuggestTemplate(s, ct)

SpecTemplates == Init /\ [][NextTemplates]_vars

-----------------------------------------------------------------------------
(* Properties of analyze_file_changes *)

ReportKeys ==
    {"base_branch", "files_changed", "statistics", "commits", "diff",
     "truncated", "total_diff_lines"}

IsReport == pc = "done" /\ DOMAIN result = ReportKeys

SomeNonzeroExit ==
    \E i \in DOMAIN issued :
        issued[i].proc.kind = "exit" /\ issued[i].proc.returncode # 0

SomeRunRaised == \E i \in DOMAIN issued : issued[i].proc.kind = "spawn_error"

DiffLines == splitlines(diff_output)

\* Number of lines of a text, counted from its terminators.
CountLines(s) ==
    Cardinality({i \in DOMAIN s : s[i] = "\n"})
    + (IF s # <<>> /\ s[Len(s)] # "\n" THEN 1 ELSE 0)

\* C1: whenever one of the git commands of an invocation exited with a
\* nonzero status, the returned object has the key "error" and no other key.
C1_NonzeroExitYieldsError ==
    (pc = "done" /\ SomeNonzeroExit) => DOMAIN result = {"error"}

\* C2: when the output of git diff <base>..HEAD is empty, the invocation ends
\* there: the result is exactly {"message": "No changes detected."} and no
\* other command is issued.
C2_EmptyDiffShortCircuits ==
    (issued # <<>> /\ issued[1].proc.kind = "exit" /\ issued[1].proc.stdout = <<>>)
        => /\ Len(issued) = 1
           /\ pc = "done"
           /\ escaped = None
           /\ result = [message |-> "No changes detected."]

C2_Witness ==
    /\ pc = "done"
    /\ base_branch = "dev"
    /\ Len(issued) = 1
    /\ issued[1].proc.kind = "exit"
    /\ issued[1].proc.returncode = 0
    /\ issued[1].proc.stdout = <<>>

\* C3 as stated: in every report, with L the number of diff lines and M =
\* max_diff_lines, the truncated form is the first M lines followed by the
\* marker when L > M, and is byte-identical to the full diff when L <= M.
C3_TruncatedAsStated ==
    IsReport =>
        IF Len(DiffLines) > max_diff_lines
        THEN result.truncated
                = join(SubSeq(DiffLines, 1, max_diff_lines)) \o TruncationMarker
        ELSE result.truncated = diff_output

\* C3 amended: in every report, when 0 <= M < L the truncated form is the
\* first M lines joined by newlines followed by the marker; when M < 0 it is
\* all but the last -M lines (none if -M >= L) followed by the marker; when
\* L <= M it is the full diff with leading and trailing whitespace removed,
\* which is the report's diff value when include_diff is true.
C3_TruncatedForm ==
    IsReport =>
        LET L == Len(DiffLines)
            M == max_diff_lines
        IN  /\ (0 <= M /\ M < L) =>
                   result.truncated = join(SubSeq(DiffLines, 1, M)) \o TruncationMarker
            /\ M < 0 =>
                   result.truncated
                      = join(SubSeq(DiffLines, 1, IF L + M > 0 THEN L + M ELSE 0))
                        \o TruncationMarker
            /\ L <= M =>
                   /\ result.truncated = strip(diff_output)
                   /\ include_diff => result.truncated = result.diff

C3_Witness ==
    /\ IsReport
    /\ ~include_diff
    /\ max_diff_lines = 1
    /\ Len(DiffLines) = 2
    /\ result.truncated = <<"a">> \o TruncationMarker

\* C4: in every report total_diff_lines is 0 when include_diff is false, and
\* is the number of lines of the full diff when include_diff is true,
\* whatever max_diff_lines is.
C4_TotalDiffLines ==
    IsReport =>
        result.total_diff_lines
            = IF include_diff THEN CountLines(diff_output) ELSE 0

C4_Witness ==
    /\ IsReport
    /\ include_diff
    /\ max_diff_lines = 1
    /\ result.total_diff_lines = 2

\* C6: the result is always one of three shapes (only "message", only
\* "error", or all seven report keys); a git invocation that raises is the
\* last one issued and gives the error object; no exception leaves the tool.
C6_NeverPartial ==
    /\ escaped = None
    /\ pc = "done" => DOMAIN result \in {{"message"}, {"error"}, ReportKeys}
    /\ pc # "done" => result = NoResult
    /\ \A i \in DOMAIN issued :
          issued[i].proc.kind = "spawn_error"
              => i = Len(issued) /\ pc = "done" /\ DOMAIN result = {"error"}

C6_Witness ==
    /\ pc = "done"
    /\ Len(issued) = 3
    /\ issued[3].proc.kind = "spawn_error"
    /\ result = [error |-> "Not a directory"]

\* C7: with working_dir absent, any failure to obtain a root is absorbed and
\* the commands run in the process's current directory; with at least one
\* root the first root's path is used; with working_dir supplied the host is
\* not consulted and that directory is used.  The resolution failure never
\* shows in the result.
C7_WorkingDirResolution ==
    pc \notin {"idle", "list_roots"} =>
        /\ given_dir # None =>
              roots_reply = NotConsulted /\ working_dir = given_dir[1]
        /\ given_dir = None =>
              /\ roots_reply # NotConsulted
              /\ roots_reply.kind \in {"no_context", "request_failed"}
                    => working_dir = getcwd
              /\ roots_reply.kind = "roots" =>
                    IF roots_reply.roots = <<>>
                    THEN working_dir = getcwd
                    ELSE working_dir = roots_reply.roots[1]
        /\ \A i \in DOMAIN issued : issued[i].cwd = working_dir
        /\ escaped = None
        /\ (pc = "done" /\ "error" \in DOMAIN result) => SomeRunRaised

C7_Witness ==
    /\ pc = "done"
    /\ given_dir = None
    /\ roots_reply = [kind |-> "roots", roots |-> <<>>]
    /\ Len(issued) = 4
    /\ issued[4].cwd = getcwd
    /\ IsReport

\* C10: the commands are issued in the fixed order diff, diff --stat,
\* diff --name-only (three dots), log --oneline, each once, all with the same
\* working directory and base branch; an invocation with a non-empty diff in
\* which nothing raises issues exactly these four.
C10_FourCommandsInOrder ==
    LET expected ==
            <<<<"git", "diff", base_branch \o "..HEAD">>,
              <<"git", "diff", "--stat", base_branch \o "..HEAD">>,
              <<"git", "diff", "--name-only", base_branch \o "...HEAD">>,
              <<"git", "log", "--oneline", base_branch \o "..HEAD">>>>
    IN  /\ Len(issued) <= 4
        /\ \A i \in DOMAIN issued :
              issued[i].argv = expected[i] /\ issued[i].cwd = working_dir
        /\ (pc = "done" /\ issued # <<>> /\ ~SomeRunRaised
               /\ issued[1].proc.stdout # <<>>) => Len(issued) = 4

C10_Witness ==
    /\ pc = "done"
    /\ ~SomeRunRaised
    /\ ~include_diff
    /\ max_diff_lines = 0
    /\ base_branch = "dev"
    /\ Len(issued) = 4
    /\ issued[3].argv = <<"git", "diff", "--name-only", "dev...HEAD">>
    /\ issued[4].argv = <<"git", "log", "--oneline", "dev..HEAD">>

-----------------------------------------------------------------------------
(* Properties of get_pr_templates and suggest_template *)

AllReadable(st) == \A f \in Filenames : st[f].readable

TableOrder ==
    <<"bug.md", "feature.md", "docs.md", "refactor.md", "test.md",
      "performance.md", "security.md">>

TableLabels ==
    <<"Bug Fix", "Feature", "Documentation", "Refactor", "Test",
      "Performance", "Security">>

LabelOf(filename) == TableLabels[CHOOSE i \in DOMAIN TableOrder : TableOrder[i] = filename]

\* Two texts that differ at most in the case of their letters.
SameIgnoringCase(a, b) ==
    /\ Len(a) = Len(b)
    /\ \A i \in DOMAIN a :
          \/ a[i] = b[i]
          \/ \E k \in DOMAIN UpperCase :
                {a[i], b[i]} = {UpperCase[k], LowerCase[k]}

\* The filename the category mapping gives a change type, case ignored.
MappedFile(change_type) ==
    IF \E e \in TYPE_MAPPING : SameIgnoringCase(change_type, e.key)
    THEN (CHOOSE e \in TYPE_MAPPING : SameIgnoringCase(change_type, e.key)).file
    ELSE "feature.md"

\* A step that is a call of the named template tool: EditStore is the only
\* other action of the template specification, and it counts an edit.
Called(name) == tool' = name /\ UNCHANGED <<store, edits>>

\* State after a call of suggest_template that found every file readable.
C5_AfterSuggest ==
    AllReadable(store) =>
        /\ ~tool_return.raised
        /\ ~tool_return.fallback
        /\ LET ct == tool_args[2]
               rec == LoadRecord(tool_return.value.recommended_template)
           IN  /\ rec.filename = MappedFile(ct)
               /\ rec.type = LabelOf(rec.filename)
               /\ rec.content = store[rec.filename].content
               /\ json_unescape(tool_return.value.template_content) = rec.content
               /\ ct \in {<<"f", "i", "x">>, <<"F", "I", "X">>,
                          <<"b", "u", "g">>, <<"B", "u", "g">>}
                     => rec.filename = "bug.md"
               /\ ct \in {<<"u", "n", "k", "n", "o", "w", "n", "-", "x", "y", "z">>,
                          <<"b", "u", "g", "s">>, <<>>}
                     => rec.filename = "feature.md"

\* C5: with all seven files readable, suggest_template recommends the record
\* of the file the category mapping gives the lowercased change_type, or of
\* feature.md for an unknown one; fix and bug in any case give bug.md, and
\* the fallback to the first record is never taken.
C5_SuggestSelectsMappedTemplate ==
    [][Called("suggest_template") => C5_AfterSuggest']_vars

C5_Witness ==
    /\ tool = "suggest_template"
    /\ tool_args[2] = <<"F", "I", "X">>
    /\ ~tool_return.raised
    /\ tool_return.value.recommended_template.filename = "bug.md"
    /\ tool_return.value.recommended_template.type = "Bug Fix"

\* State after a call of get_pr_templates that found every file readable.
C8_AfterList ==
    AllReadable(store) =>
        /\ ~tool_return.raised
        /\ LET ts == json_loads_list(tool_return.value)
           IN  /\ Len(ts) = 7
               /\ \A i \in 1..7 :
                     /\ ts[i].filename = TableOrder[i]
                     /\ ts[i].type = TableLabels[i]
                     /\ ts[i].content = store[TableOrder[i]].content

\* C8: with all files readable, get_pr_templates returns the seven records
\* of the table in its order, each with the table's label and the content
\* the file has in the store when the call is made (nothing is cached).
C8_ListReflectsStore ==
    [][Called("get_pr_templates") => C8_AfterList']_vars

C8_Witness ==
    /\ tool = "get_pr_templates"
    /\ edits = 2
    /\ ~tool_return.raised
    /\ json_loads_list(tool_return.value)[7].content = <<"\"", "\\", "n">>
    /\ json_loads_list(tool_return.value)[1].content = <<>>

\* State after a call of either template tool that found a file unreadable.
C9_AfterFailedRead ==
    ~AllReadable(store) =>
        /\ tool_return.raised
        /\ tool_return.exc = "FileNotFoundError"
        /\ "value" \notin DOMAIN tool_return

\* C9: when any of the seven files is unreadable, get_pr_templates returns
\* no list and the read error reaches the caller; suggest_template fails the
\* same way for every change_type.
C9_ReadErrorPropagates ==
    [][(Called("get_pr_templates") \/ Called("suggest_template"))
          => C9_AfterFailedRead']_vars

C9_Witness ==
    /\ tool = "suggest_template"
    /\ tool_args[2] = <<"f", "i", "x">>
    /\ edits = 1
    /\ ~store["security.md"].readable
    /\ tool_return.raised

====
